---- MODULE Spec2Model ----
(***************************************************************************)
(* Scoring and level-gating engine of agent-ready.                         *)
(*                                                                         *)
(* Two copies of the level-gate module exist in the repository:            *)
(*   - src/src/checks/git-freshness.ts (lines 510-730): the gate looks at  *)
(*     the pass rate of the level itself ("current-level gate");           *)
(*   - src/unnamed/part_006: the gate looks at the pass rate of the level  *)
(*     below ("previous-level gate").                                      *)
(* calculateLevelSummaries, calculateProgressToNext,                       *)
(* calculatePillarSummaries, determinePillarLevel and                      *)
(* calculateOverallScore are textually the same in both copies; only       *)
(* determineAchievedLevel differs.                                         *)
(*                                                                         *)
(* One behaviour of the model is one run of the engine over one list of    *)
(* CheckResults: summaries, the walk of each gate (one step per loop       *)
(* iteration), pillar summaries, overall score, progress to next level.    *)
(***************************************************************************)
EXTENDS Integers, Sequences, FiniteSets, TLC

(***************************************************************************)
(* Bounds of the model                                                     *)
(***************************************************************************)
\* longest list in the family of arbitrary short lists
MaxLen == 1
\* number of pillars (a prefix of PILLARS) that input records are drawn from
NumInputPillars == 2
\* largest population of the single-level lists (23 of 40 is the first
\* population where double rounding of the percentage shows)
MaxLevelChecks == 40

(***************************************************************************)
(* Program constants (types.ts, kept in src/test/profiles.test.ts)         *)
(***************************************************************************)
LEVELS == <<"L1", "L2", "L3", "L4", "L5">>

PILLARS == <<"docs", "style", "build", "test", "security",
             "observability", "env", "task_discovery", "product">>

\* PASSING_THRESHOLD = 0.8, kept as the fraction 8/10
PASSING_THRESHOLD == [num |-> 8, den |-> 10]

null == "null"

LevelSet == {LEVELS[k] : k \in 1..Len(LEVELS)}
PillarSet == {PILLARS[k] : k \in 1..Len(PILLARS)}
LevelOrNull == LevelSet \cup {null}

\* variant: a 1-based position
indexOfOneBased(level) ==
  IF level \in LevelSet
    THEN CHOOSE k \in 1..Len(LEVELS) : LEVELS[k] = level
    ELSE -1

\* LEVELS.indexOf(level), 0-based as in the code; -1 when absent
indexOf(level) ==
  IF level \in LevelSet
    THEN (CHOOSE k \in 1..Len(LEVELS) : LEVELS[k] = level) - 1
    ELSE -1

(***************************************************************************)
(* Array helpers: results.filter(...).length                               *)
(***************************************************************************)
\* variant: the results at the level or below it
filterLevelCumulative(rs, level) ==
  SelectSeq(rs, LAMBDA r : indexOf(r.level) <= indexOf(level))
filterLevel(rs, level) == SelectSeq(rs, LAMBDA r : r.level = level)
filterPillar(rs, pillar) == SelectSeq(rs, LAMBDA r : r.pillar = pillar)
\* variant: the passing results in front of the first failing one
filterPassedPrefix(rs) ==
  SubSeq(rs, 1, CHOOSE n \in 0..Len(rs) :
                  /\ \A k \in 1..n : rs[k].passed
                  /\ n = Len(rs) \/ ~rs[n + 1].passed)
filterPassed(rs) == SelectSeq(rs, LAMBDA r : r.passed)
\* variant: only required failures are kept
filterFailedRequired(rs) == SelectSeq(rs, LAMBDA r : ~r.passed /\ r.required)
filterFailed(rs) == SelectSeq(rs, LAMBDA r : ~r.passed)
filterRequired(rs) == SelectSeq(rs, LAMBDA r : r.required)

(***************************************************************************)
(* IEEE-754 double arithmetic of the two numeric expressions of the code,  *)
(* for 0 <= p <= t, 1 <= t < 2^20.                                         *)
(***************************************************************************)
RECURSIVE Pow2(_)
Pow2(n) == IF n <= 0 THEN 1 ELSE 2 * Pow2(n - 1)

\* (2^s) mod t by repeated doubling
RECURSIVE Pow2Mod(_, _)
Pow2Mod(s, t) == IF s = 0 THEN 1 % t ELSE (2 * Pow2Mod(s - 1, t)) % t

\* floor(log2(num/den)) for num, den > 0
RECURSIVE Log2Floor(_, _)
Log2Floor(num, den) ==
  IF num >= 2 * den THEN 1 + Log2Floor(num, 2 * den)
  ELSE IF num < den THEN Log2Floor(2 * num, den) - 1
  ELSE 0

\* variant: the comparison written with > instead of >=
ratioAboveThreshold(p, t) ==
  p * PASSING_THRESHOLD.den > PASSING_THRESHOLD.num * t

\* variant: the comparison turned round
ratioAtMostThreshold(p, t) ==
  p * PASSING_THRESHOLD.den <= PASSING_THRESHOLD.num * t

\* passedCount / totalCount >= PASSING_THRESHOLD on doubles.  Division is
\* correctly rounded and rounding is monotone, and 8/10 rounds to the literal
\* 0.8, so p/t >= 0.8 exactly gives fl(p/t) >= 0.8; a quotient p/t below 0.8
\* is below it by at least 1/(5t), far more than one ulp, so fl(p/t) < 0.8.
ratioAtLeastThreshold(p, t) ==
  p * PASSING_THRESHOLD.den >= PASSING_THRESHOLD.num * t

\* Whether fl(fl(p/t) * 100) lies strictly below the half-integer v = 100p/t.
\* fl(p/t) = M / 2^s with s = 52 + j, 2^-j <= p/t < 2^-(j-1), and
\* r = (p * 2^s) mod t is what the division drops (2r < t: rounded down, the
\* quotient is short by r / (t * 2^s); 2r > t: rounded up; 2r = t needs
\* t >= 2^53).  The product with 100 is short of v by 100r / (t * 2^s), and
\* it rounds back to v (whose significand is even) unless that exceeds half
\* the gap to the double below v, 2^(E-53) with E = floor(log2 v) (half of it
\* when v is a power of two).
productBelowHalf(p, t) ==
  LET j == 0 - Log2Floor(p, t)
      s == 52 + j
      r == (p * Pow2Mod(s, t)) % t
      E == Log2Floor(200 * p, 2 * t)
      vIsPow2 == IF E >= 0 THEN 200 * p = Pow2(E) * 2 * t
                           ELSE 200 * p * Pow2(0 - E) = 2 * t
      k == IF vIsPow2 THEN j - 2 + E ELSE j - 1 + E
  IN  /\ r > 0
      /\ 2 * r < t
      /\ 100 * r > t * Pow2(k)

\* variant: a fraction of 1000
roundPerMille(p, t) == (2000 * p + t) \div (2 * t)

\* Math.round((p / t) * 100) for t > 0.  Math.round(x) is floor(x + 0.5).
\* When 100p/t is not a half-integer it is at least 1/(2t) away from one and
\* the double result (off by less than 2^-45) rounds like the exact value.
roundPercent(p, t) ==
  LET exact == (200 * p + t) \div (2 * t)
  IN  IF (200 * p + t) % (2 * t) = 0 /\ productBelowHalf(p, t)
        THEN exact - 1
        ELSE exact

(***************************************************************************)
(* calculateLevelSummaries                                                 *)
(***************************************************************************)
\* variant: the required checks are taken from the whole list
levelSummaryOfRequiredAnyLevel(results, level) ==
  LET levelResults == filterLevel(results, level)
      totalCount == Len(levelResults)
      passedCount == Len(filterPassed(levelResults))
      requiredResults == filterRequired(results)
      requiredPassed == Len(filterPassed(requiredResults))
      requiredTotal == Len(requiredResults)
      score == IF totalCount > 0 THEN roundPercent(passedCount, totalCount) ELSE 0
      allRequired == requiredPassed = requiredTotal
      threshold == totalCount = 0 \/ ratioAtLeastThreshold(passedCount, totalCount)
  IN  [level |-> level,
       achieved |-> allRequired /\ threshold,
       score |-> score,
       checks_passed |-> passedCount,
       checks_total |-> totalCount,
       required_passed |-> requiredPassed,
       required_total |-> requiredTotal]

levelSummaryOf(results, level) ==
  LET levelResults == filterLevel(results, level)
      totalCount == Len(levelResults)
      passedCount == Len(filterPassed(levelResults))
      requiredResults == filterRequired(levelResults)
      requiredPassed == Len(filterPassed(requiredResults))
      requiredTotal == Len(requiredResults)
      score == IF totalCount > 0 THEN roundPercent(passedCount, totalCount) ELSE 0
      allRequired == requiredPassed = requiredTotal
      threshold == totalCount = 0 \/ ratioAtLeastThreshold(passedCount, totalCount)
  IN  [level |-> level,
       achieved |-> allRequired /\ threshold,
       score |-> score,
       checks_passed |-> passedCount,
       checks_total |-> totalCount,
       required_passed |-> requiredPassed,
       required_total |-> requiredTotal]

calculateLevelSummaries(results) ==
  [level \in LevelSet |-> levelSummaryOf(results, level)]

(***************************************************************************)
(* determineAchievedLevel, git-freshness.ts copy (current-level gate).     *)
(* i is the loop index (0-based); the operators below are the body of one  *)
(* iteration: TRUE when the iteration sets highestAchieved to LEVELS[i],   *)
(* FALSE when it breaks.                                                   *)
(***************************************************************************)
\* variant: an empty level never passes
emptyLevelPassesNever(highestAchieved, level) == FALSE

\* variant: an empty level passes only after a level was achieved
emptyLevelPassesAfterAchieved(highestAchieved, level) ==
  highestAchieved # null

\* variant: only an empty L1 passes
emptyLevelPassesOnlyL1(highestAchieved, level) ==
  level = "L1"

emptyLevelPasses(highestAchieved, level) ==
  highestAchieved # null \/ level = "L1"

\* variant: one passing required check is enough
someRequiredPass(summary) ==
  summary.required_total = 0 \/ summary.required_passed > 0

allRequiredPass(summary) ==
  summary.required_passed = summary.required_total

\* variant: the level must be strictly above the threshold
meetsThresholdStrict(summary) ==
  summary.checks_passed * PASSING_THRESHOLD.den
    > PASSING_THRESHOLD.num * summary.checks_total

meetsThreshold(summary) ==
  ratioAtLeastThreshold(summary.checks_passed, summary.checks_total)

currentGateAchieves(levelSummaries, i, highestAchieved) ==
  LET level == LEVELS[i + 1]
      summary == levelSummaries[level]
  IN  IF summary.checks_total = 0
        THEN emptyLevelPasses(highestAchieved, level)
        ELSE allRequiredPass(summary) /\ meetsThreshold(summary)

RECURSIVE currentGateFrom(_, _, _)
currentGateFrom(levelSummaries, i, highestAchieved) ==
  IF i >= Len(LEVELS) THEN highestAchieved
  ELSE IF currentGateAchieves(levelSummaries, i, highestAchieved)
         THEN currentGateFrom(levelSummaries, i + 1, LEVELS[i + 1])
         ELSE highestAchieved

determineAchievedLevelCurrent(levelSummaries) ==
  currentGateFrom(levelSummaries, 0, null)

(***************************************************************************)
(* determineAchievedLevel, part_006 copy (previous-level gate)             *)
(***************************************************************************)
\* variant: the rate of LEVELS[i] itself instead of the level below
prevLevelGateThisLevel(levelSummaries, i) ==
  LET summary == levelSummaries[LEVELS[i + 1]]
  IN  ratioAtLeastThreshold(summary.checks_passed, summary.checks_total)

\* variant: the previous level must pass more than 80%
prevLevelGateStrict(levelSummaries, i) ==
  LET prevSummary == IF i > 0 THEN levelSummaries[LEVELS[i]] ELSE null
  IN  IF i > 0 /\ prevSummary.checks_total > 0
        THEN ratioAboveThreshold(prevSummary.checks_passed, prevSummary.checks_total)
        ELSE TRUE

prevLevelGatePasses(levelSummaries, i) ==
  LET prevSummary == IF i > 0 THEN levelSummaries[LEVELS[i]] ELSE null
  IN  IF i > 0 /\ prevSummary.checks_total > 0
        THEN ratioAtLeastThreshold(prevSummary.checks_passed, prevSummary.checks_total)
        ELSE TRUE

previousGateAchieves(levelSummaries, i, highestAchieved) ==
  LET level == LEVELS[i + 1]
      summary == levelSummaries[level]
  IN  IF summary.checks_total = 0
        THEN emptyLevelPasses(highestAchieved, level)
        ELSE allRequiredPass(summary) /\ prevLevelGatePasses(levelSummaries, i)

RECURSIVE previousGateFrom(_, _, _)
previousGateFrom(levelSummaries, i, highestAchieved) ==
  IF i >= Len(LEVELS) THEN highestAchieved
  ELSE IF previousGateAchieves(levelSummaries, i, highestAchieved)
         THEN previousGateFrom(levelSummaries, i + 1, LEVELS[i + 1])
         ELSE highestAchieved

determineAchievedLevelPrevious(levelSummaries) ==
  previousGateFrom(levelSummaries, 0, null)

(***************************************************************************)
(* calculateProgressToNext.  The double it returns is kept as the fraction *)
(* num/den; 1.0 is 1/1.                                                    *)
(***************************************************************************)
\* variant: no level achieved counts as nothing left to do
calculateProgressToNextNullDone(currentLevel, levelSummaries) ==
  LET currentIndex == IF currentLevel # null THEN indexOf(currentLevel) ELSE -1
  IN  IF currentLevel = null \/ currentIndex + 1 >= Len(LEVELS)
        THEN [num |-> 1, den |-> 1]
        ELSE LET nextSummary == levelSummaries[LEVELS[currentIndex + 2]]
             IN  IF nextSummary.checks_total = 0
                   THEN [num |-> 1, den |-> 1]
                   ELSE [num |-> nextSummary.checks_passed,
                         den |-> nextSummary.checks_total]

calculateProgressToNext(currentLevel, levelSummaries) ==
  LET currentIndex == IF currentLevel # null THEN indexOf(currentLevel) ELSE -1
  IN  IF currentIndex + 1 >= Len(LEVELS)
        THEN [num |-> 1, den |-> 1]
        ELSE LET nextSummary == levelSummaries[LEVELS[currentIndex + 2]]
             IN  IF nextSummary.checks_total = 0
                   THEN [num |-> 1, den |-> 1]
                   ELSE [num |-> nextSummary.checks_passed,
                         den |-> nextSummary.checks_total]

(***************************************************************************)
(* determinePillarLevel (the same text in both copies)                     *)
(***************************************************************************)
\* variant: the 80% rule applied to the level itself, as the overall gate of
\* git-freshness.ts does
pillarGateAchievesThisLevel(results, i, highestAchieved) ==
  LET level == LEVELS[i + 1]
      levelResults == filterLevel(results, level)
      requiredResults == filterRequired(levelResults)
      allRequired == Len(filterPassed(requiredResults)) = Len(requiredResults)
  IN  IF Len(levelResults) = 0
        THEN emptyLevelPasses(highestAchieved, level)
        ELSE allRequired /\ ratioAtLeastThreshold(Len(filterPassed(levelResults)),
                                                  Len(levelResults))

pillarGateAchieves(results, i, highestAchieved) ==
  LET level == LEVELS[i + 1]
      levelResults == filterLevel(results, level)
      prevResults == IF i > 0 THEN filterLevel(results, LEVELS[i]) ELSE <<>>
      requiredResults == filterRequired(levelResults)
      requiredPassed == Len(filterPassed(requiredResults))
      allRequired == requiredPassed = Len(requiredResults)
      prevGate == IF Len(prevResults) > 0
                    THEN ratioAtLeastThreshold(Len(filterPassed(prevResults)),
                                               Len(prevResults))
                    ELSE TRUE
  IN  IF Len(levelResults) = 0
        THEN emptyLevelPasses(highestAchieved, level)
        ELSE allRequired /\ prevGate

RECURSIVE pillarGateFrom(_, _, _)
pillarGateFrom(results, i, highestAchieved) ==
  IF i >= Len(LEVELS) THEN highestAchieved
  ELSE IF pillarGateAchieves(results, i, highestAchieved)
         THEN pillarGateFrom(results, i + 1, LEVELS[i + 1])
         ELSE highestAchieved

determinePillarLevel(results) == pillarGateFrom(results, 0, null)

(***************************************************************************)
(* calculatePillarSummaries, calculateOverallScore                         *)
(***************************************************************************)
PILLAR_NAMES ==
  [pillar \in PillarSet |->
     CASE pillar = "docs" -> "Documentation"
       [] pillar = "style" -> "Code Style"
       [] pillar = "build" -> "Build System & CI/CD"
       [] pillar = "test" -> "Testing"
       [] pillar = "security" -> "Security"
       [] pillar = "observability" -> "Observability"
       [] pillar = "env" -> "Environment"
       [] pillar = "task_discovery" -> "Task Discovery"
       [] pillar = "product" -> "Product & Experimentation"]

pillarSummaryOf(results, pillar) ==
  LET pillarResults == filterPillar(results, pillar)
      totalCount == Len(pillarResults)
      passedCount == Len(filterPassed(pillarResults))
      failed == filterFailed(pillarResults)
      failedChecks == [k \in 1..Len(failed) |-> failed[k].check_id]
      score == IF totalCount > 0 THEN roundPercent(passedCount, totalCount) ELSE 100
  IN  [pillar |-> pillar,
       name |-> PILLAR_NAMES[pillar],
       level_achieved |-> determinePillarLevel(pillarResults),
       score |-> score,
       checks_passed |-> passedCount,
       checks_total |-> totalCount,
       failed_checks |-> failedChecks]

calculatePillarSummaries(results) ==
  [pillar \in PillarSet |-> pillarSummaryOf(results, pillar)]

calculateOverallScore(results) ==
  IF Len(results) = 0 THEN 0
  ELSE roundPercent(Len(filterPassed(results)), Len(results))

(***************************************************************************)
(* Action items of a scan result.  The function that builds them belongs to *)
(* the scanner (scan() of the library); it is modelled on section 4.5 of    *)
(* the specification.                                                       *)
(***************************************************************************)
PRIORITIES == <<"critical", "high", "medium", "low">>

priorityIndex(priority) ==
  CHOOSE k \in 1..Len(PRIORITIES) : PRIORITIES[k] = priority

\* critical: required and at the level that blocks (the first unachieved
\* level, or the current level); high: at the first unachieved level;
\* medium: optional, at or below the achieved level; low: beyond the first
\* unachieved level
priorityOf(check, achieved) ==
  LET at == indexOf(check.level) + 1
      current == indexOf(achieved) + 1
      next == current + 1
  IN  CASE check.required /\ (at = next \/ at = current) -> "critical"
        [] at = next -> "high"
        [] ~check.required /\ at <= current -> "medium"
        [] at > next -> "low"
        [] OTHER -> "medium"

actionItemOf(check, achieved) ==
  [check_id |-> check.check_id, pillar |-> check.pillar, level |-> check.level,
   priority |-> priorityOf(check, achieved)]

\* variant: ties between equal priorities broken by check_id alone
itemBeforeById(a, b) ==
  \/ priorityIndex(a.priority) < priorityIndex(b.priority)
  \/ /\ priorityIndex(a.priority) = priorityIndex(b.priority)
     /\ a.check_id < b.check_id

\* sort order: priority, then level ascending, then check_id
itemBefore(a, b) ==
  \/ priorityIndex(a.priority) < priorityIndex(b.priority)
  \/ /\ priorityIndex(a.priority) = priorityIndex(b.priority)
     /\ \/ indexOf(a.level) < indexOf(b.level)
        \/ /\ indexOf(a.level) = indexOf(b.level)
           /\ a.check_id < b.check_id

RECURSIVE insertItem(_, _)
insertItem(item, sorted) ==
  IF Len(sorted) = 0 THEN <<item>>
  ELSE IF itemBefore(item, sorted[1]) THEN <<item>> \o sorted
  ELSE <<sorted[1]>> \o insertItem(item, Tail(sorted))

RECURSIVE sortItems(_)
sortItems(items) ==
  IF Len(items) = 0 THEN <<>>
  ELSE insertItem(items[1], sortItems(Tail(items)))

generateActionItems(failedChecks, achieved) ==
  sortItems([k \in 1..Len(failedChecks) |-> actionItemOf(failedChecks[k], achieved)])

(***************************************************************************)
(* Input lists.  A CheckResult is kept with the fields the engine reads    *)
(* (check_id, pillar, level, passed, required).                            *)
(***************************************************************************)
InputPillars == {PILLARS[k] : k \in 1..NumInputPillars}

pillarAt(k) == PILLARS[((k - 1) % NumInputPillars) + 1]

\* check_id: the position of the record in the list
withIds(rs) ==
  [k \in 1..Len(rs) |->
     [check_id |-> k, pillar |-> rs[k].pillar, level |-> rs[k].level,
      passed |-> rs[k].passed, required |-> rs[k].required]]

BareResults ==
  [pillar : InputPillars, level : LevelSet, passed : BOOLEAN, required : BOOLEAN]

\* every list of at most MaxLen results
ShortLists ==
  UNION {{withIds(rs) : rs \in [1..n -> BareResults]} : n \in 0..MaxLen}

\* populations of one level, as <<passed, required>> pairs: empty, one required
\* check passing, a required and an optional check failing, 4 of 5 with the required one
\* passing, 3 of 5 with the required one passing, 4 of 5 with one of two
\* required checks failing
LevelShapes ==
  { <<>>,
    << <<TRUE, TRUE>> >>,
    << <<FALSE, TRUE>>, <<FALSE, FALSE>> >>,
    << <<TRUE, TRUE>>, <<TRUE, FALSE>>, <<TRUE, FALSE>>, <<TRUE, FALSE>>, <<FALSE, FALSE>> >>,
    << <<TRUE, TRUE>>, <<TRUE, FALSE>>, <<TRUE, FALSE>>, <<FALSE, FALSE>>, <<FALSE, FALSE>> >>,
    << <<FALSE, TRUE>>, <<TRUE, TRUE>>, <<TRUE, FALSE>>, <<TRUE, FALSE>>, <<TRUE, FALSE>> >> }

shapeBlock(level, shape) ==
  [k \in 1..Len(shape) |->
     [pillar |-> pillarAt(k), level |-> level,
      passed |-> shape[k][1], required |-> shape[k][2]]]

\* one shape for each level; L5's block comes first, so that the order of the
\* list is not the order of the levels
ShapedLists ==
  { withIds(shapeBlock("L5", sh["L5"]) \o shapeBlock("L4", sh["L4"])
            \o shapeBlock("L3", sh["L3"]) \o shapeBlock("L2", sh["L2"])
            \o shapeBlock("L1", sh["L1"]))
    : sh \in [LevelSet -> LevelShapes] }

\* t results of the first pillar at L1 of which the first p pass; the first
\* one is required
singleLevelList(p, t) ==
  withIds([k \in 1..t |->
     [pillar |-> PILLARS[1], level |-> "L1",
      passed |-> k <= p, required |-> k = 1]])

SingleLevelLists ==
  UNION {{singleLevelList(p, t) : p \in 0..t} : t \in 1..MaxLevelChecks}

Inputs == ShortLists \cup ShapedLists \cup SingleLevelLists

\* Level and Pillar are compile-time types only: a list handed to the exported
\* functions at run time can hold a record whose level or pillar is outside
\* the enumerations.  One such record is put in front of a shaped list whose
\* levels L3..L5 are empty.
StrayResults ==
  { [pillar |-> PILLARS[1], level |-> "L6", passed |-> ps, required |-> FALSE]
      : ps \in BOOLEAN }
  \cup
  { [pillar |-> "other", level |-> LEVELS[1], passed |-> ps, required |-> FALSE]
      : ps \in BOOLEAN }

UnvalidatedInputs ==
  { withIds(<<stray>> \o shapeBlock("L1", sh[1]) \o shapeBlock("L2", sh[2]))
    : stray \in StrayResults, sh \in LevelShapes \X LevelShapes }

(***************************************************************************)
(* State                                                                   *)
(***************************************************************************)
VARIABLES
  pc,               \* the step of the run that comes next
  results,          \* the CheckResult list of this scan
  levelSummaries,   \* calculateLevelSummaries(results)
  i,                \* loop index of the gate walk in progress
  highestAchieved,  \* local of the gate walk in progress
  broke,            \* the walk in progress has left its loop by break
  levelCurrent,     \* what the git-freshness.ts gate returned
  levelPrevious,    \* what the part_006 gate returned
  pillarSummaries,  \* calculatePillarSummaries(results)
  overallScore,     \* calculateOverallScore(results)
  progressFrom,     \* the currentLevel argument of calculateProgressToNext
  progress,         \* what calculateProgressToNext returned
  actionLevel,      \* the achieved level the action items are ranked against
  actionItems       \* the ranked ActionItem list of the scan result

\* a second scan of a changed list
VARIABLES
  before,           \* the aggregates of the first scan, null during the first scan
  change            \* what was done to the list between the scans

\* the i18n module and the MCP tool calls in flight
VARIABLES
  currentLocale,    \* let currentLocale of the i18n module
  lastLocaleSet,    \* the argument of the most recent setLocale call
  localeReturned,   \* what getLocale returned, null after the next setLocale
  toolCalls         \* the MCP tool calls: tool, lang and position of each

\* init_files
VARIABLES
  files,            \* the target paths that exist in the repository
  failedChecks,     \* result.failed_checks of a scan of the repository
  initCalls,        \* the initFiles calls: input, locals and position of each
  overwritten       \* the paths that writeFile was called on while they existed

\* scanCommand
VARIABLES
  cli               \* options, position and effects of one scanCommand run

engineVars ==
  <<pc, results, levelSummaries, i, highestAchieved, broke, levelCurrent,
    levelPrevious, pillarSummaries, overallScore, progressFrom, progress,
    actionLevel, actionItems>>
rescanVars == <<before, change>>
localeVars == <<currentLocale, lastLocaleSet, localeReturned, toolCalls>>
initFilesVars == <<files, failedChecks, initCalls, overwritten>>
cliVars == <<cli>>

vars == <<engineVars, rescanVars, localeVars, initFilesVars, cliVars>>

\* the parts of the state that a specification leaves at rest
EngineOff ==
  /\ pc = "off"
  /\ results = <<>>
  /\ levelSummaries = <<>>
  /\ i = 0
  /\ highestAchieved = null
  /\ broke = FALSE
  /\ levelCurrent = null
  /\ levelPrevious = null
  /\ pillarSummaries = <<>>
  /\ overallScore = 0
  /\ progressFrom = null
  /\ progress = [num |-> 0, den |-> 1]
  /\ actionLevel = null
  /\ actionItems = <<>>

RescanOff == before = null /\ change = "none"

LocaleOff ==
  /\ currentLocale = "en"
  /\ lastLocaleSet = null
  /\ localeReturned = null
  /\ toolCalls = <<>>

InitFilesOff ==
  /\ files = {}
  /\ failedChecks = <<>>
  /\ initCalls = <<>>
  /\ overwritten = {}

CliOff == cli = null

Init ==
  /\ results \in Inputs
  /\ pc = "summaries"
  /\ levelSummaries = <<>>
  /\ i = 0
  /\ highestAchieved = null
  /\ broke = FALSE
  /\ levelCurrent = null
  /\ levelPrevious = null
  /\ pillarSummaries = <<>>
  /\ overallScore = 0
  /\ progressFrom = null
  /\ progress = [num |-> 0, den |-> 1]
  /\ actionLevel = null
  /\ actionItems = <<>>
  /\ RescanOff /\ LocaleOff /\ InitFilesOff /\ CliOff

(***************************************************************************)
(* Steps                                                                   *)
(***************************************************************************)
CalculateLevelSummaries ==
  /\ pc = "summaries"
  /\ levelSummaries' = calculateLevelSummaries(results)
  /\ pc' = "gateCurrent"
  /\ UNCHANGED <<actionLevel, actionItems,
                 results, i, highestAchieved, broke, levelCurrent, levelPrevious,
                 pillarSummaries, overallScore, progressFrom, progress>>
  /\ UNCHANGED <<rescanVars, localeVars, initFilesVars, cliVars>>

\* variant: continue instead of break at a level that is not achieved
CurrentGateIterateContinue ==
  /\ pc = "gateCurrent"
  /\ ~broke
  /\ i < Len(LEVELS)
  /\ IF currentGateAchieves(levelSummaries, i, highestAchieved)
       THEN highestAchieved' = LEVELS[i + 1]
       ELSE UNCHANGED highestAchieved
  /\ i' = i + 1
  /\ broke' = FALSE
  /\ UNCHANGED <<actionLevel, actionItems,
                 pc, results, levelSummaries, levelCurrent, levelPrevious,
                 pillarSummaries, overallScore, progressFrom, progress>>
  /\ UNCHANGED <<rescanVars, localeVars, initFilesVars, cliVars>>

\* one iteration of the for loop of determineAchievedLevel (git-freshness.ts)
CurrentGateIterate ==
  /\ pc = "gateCurrent"
  /\ ~broke
  /\ i < Len(LEVELS)
  /\ IF currentGateAchieves(levelSummaries, i, highestAchieved)
       THEN /\ highestAchieved' = LEVELS[i + 1]
            /\ i' = i + 1
            /\ broke' = FALSE
       ELSE /\ broke' = TRUE
            /\ UNCHANGED <<i, highestAchieved>>
  /\ UNCHANGED <<actionLevel, actionItems,
                 pc, results, levelSummaries, levelCurrent, levelPrevious,
                 pillarSummaries, overallScore, progressFrom, progress>>
  /\ UNCHANGED <<rescanVars, localeVars, initFilesVars, cliVars>>

\* return highestAchieved
CurrentGateReturn ==
  /\ pc = "gateCurrent"
  /\ broke \/ i >= Len(LEVELS)
  /\ levelCurrent' = highestAchieved
  /\ pc' = "gatePrevious"
  /\ i' = 0
  /\ highestAchieved' = null
  /\ broke' = FALSE
  /\ UNCHANGED <<actionLevel, actionItems,
                 results, levelSummaries, levelPrevious, pillarSummaries,
                 overallScore, progressFrom, progress>>
  /\ UNCHANGED <<rescanVars, localeVars, initFilesVars, cliVars>>

\* one iteration of the for loop of determineAchievedLevel (part_006)
PreviousGateIterate ==
  /\ pc = "gatePrevious"
  /\ ~broke
  /\ i < Len(LEVELS)
  /\ IF previousGateAchieves(levelSummaries, i, highestAchieved)
       THEN /\ highestAchieved' = LEVELS[i + 1]
            /\ i' = i + 1
            /\ broke' = FALSE
       ELSE /\ broke' = TRUE
            /\ UNCHANGED <<i, highestAchieved>>
  /\ UNCHANGED <<actionLevel, actionItems,
                 pc, results, levelSummaries, levelCurrent, levelPrevious,
                 pillarSummaries, overallScore, progressFrom, progress>>
  /\ UNCHANGED <<rescanVars, localeVars, initFilesVars, cliVars>>

PreviousGateReturn ==
  /\ pc = "gatePrevious"
  /\ broke \/ i >= Len(LEVELS)
  /\ levelPrevious' = highestAchieved
  /\ pc' = "pillars"
  /\ i' = 0
  /\ highestAchieved' = null
  /\ broke' = FALSE
  /\ UNCHANGED <<actionLevel, actionItems,
                 results, levelSummaries, levelCurrent, pillarSummaries,
                 overallScore, progressFrom, progress>>
  /\ UNCHANGED <<rescanVars, localeVars, initFilesVars, cliVars>>

CalculatePillarSummaries ==
  /\ pc = "pillars"
  /\ pillarSummaries' = calculatePillarSummaries(results)
  /\ pc' = "overall"
  /\ UNCHANGED <<actionLevel, actionItems,
                 results, levelSummaries, i, highestAchieved, broke, levelCurrent,
                 levelPrevious, overallScore, progressFrom, progress>>
  /\ UNCHANGED <<rescanVars, localeVars, initFilesVars, cliVars>>

CalculateOverallScore ==
  /\ pc = "overall"
  /\ overallScore' = calculateOverallScore(results)
  /\ pc' = "actions"
  /\ UNCHANGED <<actionLevel, actionItems,
                 results, levelSummaries, i, highestAchieved, broke, levelCurrent,
                 levelPrevious, pillarSummaries, progressFrom, progress>>
  /\ UNCHANGED <<rescanVars, localeVars, initFilesVars, cliVars>>

\* the action items of the scan result, ranked against the level the gate of
\* the module in use returned
GenerateActionItems ==
  /\ pc = "actions"
  /\ \E level \in {levelCurrent, levelPrevious} :
       /\ actionLevel' = level
       /\ actionItems' = generateActionItems(filterFailed(results), level)
  /\ pc' = "progress"
  /\ UNCHANGED <<results, levelSummaries, i, highestAchieved, broke, levelCurrent,
                 levelPrevious, pillarSummaries, overallScore, progressFrom,
                 progress>>
  /\ UNCHANGED <<rescanVars, localeVars, initFilesVars, cliVars>>

\* calculateProgressToNext is exported and takes any Level | null
CalculateProgressToNext ==
  /\ pc = "progress"
  /\ \E currentLevel \in LevelOrNull :
       /\ progressFrom' = currentLevel
       /\ progress' = calculateProgressToNext(currentLevel, levelSummaries)
  /\ pc' = "done"
  /\ UNCHANGED <<actionLevel, actionItems,
                 results, levelSummaries, i, highestAchieved, broke, levelCurrent,
                 levelPrevious, pillarSummaries, overallScore>>
  /\ UNCHANGED <<rescanVars, localeVars, initFilesVars, cliVars>>

Next ==
  \/ CalculateLevelSummaries
  \/ CurrentGateIterate
  \/ CurrentGateReturn
  \/ PreviousGateIterate
  \/ PreviousGateReturn
  \/ CalculatePillarSummaries
  \/ CalculateOverallScore
  \/ GenerateActionItems
  \/ CalculateProgressToNext

Spec == Init /\ [][Next]_vars

\* the same run over a list that was not validated against the enumerations
InitUnvalidated ==
  /\ results \in UnvalidatedInputs
  /\ pc = "summaries"
  /\ levelSummaries = <<>>
  /\ i = 0
  /\ highestAchieved = null
  /\ broke = FALSE
  /\ levelCurrent = null
  /\ levelPrevious = null
  /\ pillarSummaries = <<>>
  /\ overallScore = 0
  /\ progressFrom = null
  /\ progress = [num |-> 0, den |-> 1]
  /\ actionLevel = null
  /\ actionItems = <<>>
  /\ RescanOff /\ LocaleOff /\ InitFilesOff /\ CliOff

SpecUnvalidated == InitUnvalidated /\ [][Next]_vars

(***************************************************************************)
(* A second scan: the same engine run again on the list after one check    *)
(* was fixed, or after the list was put in another order                   *)
(***************************************************************************)
\* one shape for each of L1, L2, L3
RescanInputs ==
  { withIds(shapeBlock("L3", sh[3]) \o shapeBlock("L2", sh[2])
            \o shapeBlock("L1", sh[1]))
    : sh \in LevelShapes \X LevelShapes \X LevelShapes }

InitRescan ==
  /\ results \in RescanInputs
  /\ pc = "summaries"
  /\ levelSummaries = <<>>
  /\ i = 0
  /\ highestAchieved = null
  /\ broke = FALSE
  /\ levelCurrent = null
  /\ levelPrevious = null
  /\ pillarSummaries = <<>>
  /\ overallScore = 0
  /\ progressFrom = null
  /\ progress = [num |-> 0, den |-> 1]
  /\ actionLevel = null
  /\ actionItems = <<>>
  /\ RescanOff /\ LocaleOff /\ InitFilesOff /\ CliOff

\* the aggregates of a finished scan
aggregates ==
  [levelSummaries |-> levelSummaries,
   levelCurrent |-> levelCurrent,
   levelPrevious |-> levelPrevious,
   pillarSummaries |-> pillarSummaries,
   overallScore |-> overallScore,
   progressFrom |-> progressFrom,
   progress |-> progress]

\* a scan that gave its achieved level to calculateProgressToNext and to the
\* action items has finished, and no second scan was made yet
firstScanDone ==
  /\ pc = "done"
  /\ change = "none"
  /\ progressFrom \in {levelCurrent, levelPrevious}
  /\ actionLevel = progressFrom

\* the engine starts over on the list newResults
scanAgain(newResults, what) ==
  /\ results' = newResults
  /\ before' = aggregates
  /\ change' = what
  /\ pc' = "summaries"
  /\ levelSummaries' = <<>>
  /\ i' = 0
  /\ highestAchieved' = null
  /\ broke' = FALSE
  /\ levelCurrent' = null
  /\ levelPrevious' = null
  /\ pillarSummaries' = <<>>
  /\ overallScore' = 0
  /\ progressFrom' = null
  /\ progress' = [num |-> 0, den |-> 1]
  /\ actionLevel' = null
  /\ actionItems' = <<>>
  /\ UNCHANGED <<localeVars, initFilesVars, cliVars>>

\* one failed check of the list passes in the next scan
PassOneCheck ==
  /\ firstScanDone
  /\ \E k \in 1..Len(results) :
       /\ ~results[k].passed
       /\ scanAgain([results EXCEPT ![k].passed = TRUE], "pass")

reversed(rs) == [k \in 1..Len(rs) |-> rs[Len(rs) + 1 - k]]
swapped(rs, j) == [rs EXCEPT ![j] = rs[j + 1], ![j + 1] = rs[j]]

\* the next scan gets the same records in another order
Reorder ==
  /\ firstScanDone
  /\ \E newResults \in {reversed(results)}
                        \cup {swapped(results, j) : j \in 1..(Len(results) - 1)} :
       /\ newResults # results
       /\ scanAgain(newResults, "reorder")

NextRescan ==
  \/ Next
  \/ PassOneCheck
  \/ Reorder

SpecRescan == InitRescan /\ [][NextRescan]_vars

(***************************************************************************)
(* The i18n module (part_007) and the MCP tools that set its locale        *)
(***************************************************************************)
\* the keys of the translations object literal
SupportedLocales == {"en", "zh"}

\* translations is a plain object: a lookup by a name that Object.prototype
\* defines finds the inherited member
ObjectPrototypeKeys == {"constructor", "toString"}

\* translations[locale]: the dictionary of the locale (named by its key), an
\* inherited member, or undefined
translationsAt(locale) ==
  CASE locale \in SupportedLocales -> locale
    [] locale \in ObjectPrototypeKeys -> "inherited"
    [] OTHER -> "undefined"

truthy(value) == value # "undefined"

\* the value setLocale(locale) leaves in currentLocale
setLocale(locale) ==
  IF truthy(translationsAt(locale)) THEN locale ELSE "en"

\* locale in translations
isValidLocale(locale) == locale \in SupportedLocales \cup ObjectPrototypeKeys

\* the strings that callers pass to setLocale
LocaleArgs == SupportedLocales \cup {"fr", "invalid"} \cup ObjectPrototypeKeys

ToolCallIds == {1, 2}
Tools == {"getActionItems", "scanRepository", "getBaselineScan"}
idleCall == [tool |-> null, lang |-> null, pc |-> "idle", observed |-> null]
noCallInFlight == \A c \in ToolCallIds : toolCalls[c].pc = "idle"

InitLocale ==
  /\ currentLocale = "en"
  /\ lastLocaleSet = null
  /\ localeReturned = null
  /\ toolCalls = [c \in ToolCallIds |-> idleCall]
  /\ EngineOff /\ RescanOff /\ InitFilesOff /\ CliOff

\* a caller of the library sets the locale (no tool call is in flight)
SetLocale ==
  /\ noCallInFlight
  /\ \E locale \in LocaleArgs :
       /\ currentLocale' = setLocale(locale)
       /\ lastLocaleSet' = locale
  /\ localeReturned' = null
  /\ UNCHANGED <<toolCalls, engineVars, rescanVars, initFilesVars, cliVars>>

GetLocale ==
  /\ noCallInFlight
  /\ localeReturned' = currentLocale
  /\ UNCHANGED <<currentLocale, lastLocaleSet, toolCalls,
                 engineVars, rescanVars, initFilesVars, cliVars>>

\* a tool call runs from its entry to its await scan(...): lang has passed
\* z.enum(['en', 'zh'])
ToolCallEnter(c) ==
  /\ toolCalls[c].pc = "idle"
  /\ \E tool \in Tools, lang \in SupportedLocales :
       /\ IF isValidLocale(lang)
            THEN currentLocale' = setLocale(lang) /\ lastLocaleSet' = lang
            ELSE UNCHANGED <<currentLocale, lastLocaleSet>>
       /\ toolCalls' = [toolCalls EXCEPT
                          ![c] = [tool |-> tool, lang |-> lang, pc |-> "scanning",
                                  observed |-> null]]
  /\ localeReturned' = null
  /\ UNCHANGED <<engineVars, rescanVars, initFilesVars, cliVars>>

\* the scan of a call completes, under the locale of that moment
ToolCallScanReturns(c) ==
  /\ toolCalls[c].pc = "scanning"
  /\ toolCalls' = [toolCalls EXCEPT ![c].pc = "done",
                                     ![c].observed = currentLocale]
  /\ UNCHANGED <<currentLocale, lastLocaleSet, localeReturned,
                 engineVars, rescanVars, initFilesVars, cliVars>>

\* the call returns its JSON text
ToolCallReturns(c) ==
  /\ toolCalls[c].pc = "done"
  /\ toolCalls' = [toolCalls EXCEPT ![c] = idleCall]
  /\ UNCHANGED <<currentLocale, lastLocaleSet, localeReturned,
                 engineVars, rescanVars, initFilesVars, cliVars>>

NextLocale ==
  \/ SetLocale
  \/ GetLocale
  \/ \E c \in ToolCallIds : ToolCallEnter(c)
  \/ \E c \in ToolCallIds : ToolCallScanReturns(c)
  \/ \E c \in ToolCallIds : ToolCallReturns(c)

SpecLocale == InitLocale /\ [][NextLocale]_vars

(***************************************************************************)
(* init_files (part_011)                                                   *)
(***************************************************************************)
\* the checks of the profile that may fail, in the order of the scan result
ProfileChecks ==
  << [check_id |-> "docs.agents_md", level |-> "L1"],
     [check_id |-> "env.dotenv_example", level |-> "L2"],
     [check_id |-> "build.ci_config", level |-> "L3"] >>

\* targetPath of the template of a check, null when the check has none
getTemplateForCheck(check_id) ==
  CASE check_id = "docs.agents_md" -> "AGENTS.md"
    [] check_id = "env.dotenv_example" -> ".env.example"
    [] OTHER -> null

TargetPaths == {"AGENTS.md", ".env.example"}

\* the failed-check lists a scan may return: sub-lists of ProfileChecks
FailedCheckLists ==
  { SelectSeq(ProfileChecks, LAMBDA check : check.check_id \in ids)
    : ids \in SUBSET {ProfileChecks[k].check_id : k \in 1..Len(ProfileChecks)} }

InitCallIds == {1, 2}

\* the inputs that pass initFilesSchema
InitLevels == {null, "L1", "L2"}
InitCheckIds == {null, "docs.agents_md"}

notCalled ==
  [pc |-> "idle", level |-> null, check_id |-> null, dry_run |-> TRUE,
   templates |-> <<>>, index |-> 0, created |-> <<>>, skipped |-> <<>>]

InitInitFiles ==
  /\ files \in SUBSET TargetPaths
  /\ failedChecks \in FailedCheckLists
  /\ initCalls = [c \in InitCallIds |-> notCalled]
  /\ overwritten = {}
  /\ EngineOff /\ RescanOff /\ LocaleOff /\ CliOff

\* lines 223-230: the filter by level
levelFilterKeeps(check, level) ==
  level # null => indexOf(check.level) <= indexOf(level)

\* lines 220-253: failed checks, filtered, that have a template
templatesInfoOf(failed, level, check_id) ==
  LET byLevel == SelectSeq(failed, LAMBDA check : levelFilterKeeps(check, level))
      byId == IF check_id # null
                THEN SelectSeq(byLevel, LAMBDA check : check.check_id = check_id)
                ELSE byLevel
      withTemplate ==
        SelectSeq(byId, LAMBDA check : getTemplateForCheck(check.check_id) # null)
  IN  [k \in 1..Len(withTemplate) |->
         [check_id |-> withTemplate[k].check_id,
          level |-> withTemplate[k].level,
          would_create |-> getTemplateForCheck(withTemplate[k].check_id)]]

\* a call runs from its entry through the scan to the list of templates
InitFilesScan(c) ==
  /\ initCalls[c].pc = "idle"
  /\ \E level \in InitLevels, check_id \in InitCheckIds, dry_run \in BOOLEAN :
       initCalls' = [initCalls EXCEPT
         ![c] = [pc |-> IF dry_run THEN "respond" ELSE "access",
                 level |-> level, check_id |-> check_id, dry_run |-> dry_run,
                 templates |-> templatesInfoOf(failedChecks, level, check_id),
                 index |-> 1, created |-> <<>>, skipped |-> <<>>]]
  /\ UNCHANGED <<files, failedChecks, overwritten,
                 engineVars, rescanVars, localeVars, cliVars>>

\* lines 260-273: the next template, and await fs.access(targetPath)
InitFilesAccess(c) ==
  LET call == initCalls[c]
  IN  /\ call.pc = "access"
      /\ IF call.index > Len(call.templates)
           THEN initCalls' = [initCalls EXCEPT ![c].pc = "respond"]
           ELSE IF call.templates[call.index].would_create \in files
                  THEN initCalls' =
                         [initCalls EXCEPT
                            ![c].skipped =
                               Append(@, call.templates[call.index].would_create),
                            ![c].index = @ + 1]
                  ELSE initCalls' = [initCalls EXCEPT ![c].pc = "write"]
      /\ UNCHANGED <<files, failedChecks, overwritten,
                     engineVars, rescanVars, localeVars, cliVars>>

\* lines 275-281: await fs.mkdir, await fs.writeFile
InitFilesWrite(c) ==
  LET call == initCalls[c]
      targetPath == call.templates[call.index].would_create
  IN  /\ call.pc = "write"
      /\ overwritten' = IF targetPath \in files
                          THEN overwritten \cup {targetPath}
                          ELSE overwritten
      /\ files' = files \cup {targetPath}
      /\ initCalls' = [initCalls EXCEPT ![c].created = Append(@, targetPath),
                                         ![c].index = @ + 1,
                                         ![c].pc = "access"]
      /\ UNCHANGED <<failedChecks, engineVars, rescanVars, localeVars, cliVars>>

\* lines 285-301: the response
InitFilesRespond(c) ==
  /\ initCalls[c].pc = "respond"
  /\ initCalls' = [initCalls EXCEPT ![c].pc = "done"]
  /\ UNCHANGED <<files, failedChecks, overwritten,
                 engineVars, rescanVars, localeVars, cliVars>>

NextInitFiles ==
  \/ \E c \in InitCallIds : InitFilesScan(c)
  \/ \E c \in InitCallIds : InitFilesAccess(c)
  \/ \E c \in InitCallIds : InitFilesWrite(c)
  \/ \E c \in InitCallIds : InitFilesRespond(c)

SpecInitFiles == InitInitFiles /\ [][NextInitFiles]_vars

(***************************************************************************)
(* scanCommand (src/commands/scan.ts)                                      *)
(***************************************************************************)
\* option values of a run: a level option may be absent, empty, valid or
\* not; an output format valid or not
CliLevels == {null, "", "L1", "L3", "L9"}
CliOutputs == {"json", "markdown", "both", "xml"}

\* line 72: isValidLevel
isValidLevel(level) == level \in {"L1", "L2", "L3", "L4", "L5"}

\* line 33: the output formats
isValidOutput(output) == output \in {"json", "markdown", "both"}

\* variant: the run always reports success
exitCodeAlwaysZero(level) == 0

\* line 64: result.level ? 0 : 1
exitCodeOf(level) == IF level # null THEN 0 ELSE 1

InitScanCommand ==
  /\ cli \in [pc : {"validatePath"},
               pathExists : BOOLEAN,
               level : CliLevels,
               output : CliOutputs,
               verbose : BOOLEAN,
               scanStarted : {FALSE},
               scanCompleted : {FALSE},
               resultLevel : {null},
               outputs : {{}},
               outputFailed : {FALSE},
               exitCode : {null}]
  /\ EngineOff /\ RescanOff /\ LocaleOff /\ InitFilesOff

cliFrame == UNCHANGED <<engineVars, rescanVars, localeVars, initFilesVars>>

\* lines 16-21
ValidatePath ==
  /\ cli.pc = "validatePath"
  /\ IF ~cli.pathExists
       THEN cli' = [cli EXCEPT !.exitCode = 1, !.pc = "exited"]
       ELSE cli' = [cli EXCEPT !.pc = "validateLevel"]
  /\ cliFrame

\* lines 24-30
ValidateLevel ==
  /\ cli.pc = "validateLevel"
  /\ IF cli.level \notin {null, ""} /\ ~isValidLevel(cli.level)
       THEN cli' = [cli EXCEPT !.exitCode = 1, !.pc = "exited"]
       ELSE cli' = [cli EXCEPT !.pc = "validateOutput"]
  /\ cliFrame

\* lines 33-39
ValidateOutput ==
  /\ cli.pc = "validateOutput"
  /\ IF ~isValidOutput(cli.output)
       THEN cli' = [cli EXCEPT !.exitCode = 1, !.pc = "exited"]
       ELSE cli' = [cli EXCEPT !.pc = "scan"]
  /\ cliFrame

\* line 48: await scan(options) returns a result or throws
RunScan ==
  /\ cli.pc = "scan"
  /\ \/ \E level \in LevelOrNull :
          cli' = [cli EXCEPT !.scanStarted = TRUE, !.scanCompleted = TRUE,
                             !.resultLevel = level, !.pc = "outputJson"]
     \/ cli' = [cli EXCEPT !.scanStarted = TRUE, !.pc = "catch"]
  /\ cliFrame

\* lines 51-57: await outputJson(result, outputPath) writes the file or throws
OutputJson ==
  /\ cli.pc = "outputJson"
  /\ IF cli.output \in {"json", "both"}
       THEN \/ cli' = [cli EXCEPT !.outputs = @ \cup {"json"},
                                  !.pc = "outputMarkdown"]
            \/ cli' = [cli EXCEPT !.outputFailed = TRUE, !.pc = "catch"]
       ELSE cli' = [cli EXCEPT !.pc = "outputMarkdown"]
  /\ cliFrame

\* lines 59-61
OutputMarkdown ==
  /\ cli.pc = "outputMarkdown"
  /\ IF cli.output \in {"markdown", "both"}
       THEN cli' = [cli EXCEPT !.outputs = @ \cup {"markdown"}, !.pc = "exit"]
       ELSE cli' = [cli EXCEPT !.pc = "exit"]
  /\ cliFrame

\* line 64
ExitWithLevel ==
  /\ cli.pc = "exit"
  /\ cli' = [cli EXCEPT !.exitCode = exitCodeOf(cli.resultLevel), !.pc = "exited"]
  /\ cliFrame

\* lines 65-68
CatchAndExit ==
  /\ cli.pc = "catch"
  /\ cli' = [cli EXCEPT !.exitCode = 1, !.pc = "exited"]
  /\ cliFrame

NextScanCommand ==
  \/ ValidatePath
  \/ ValidateLevel
  \/ ValidateOutput
  \/ RunScan
  \/ OutputJson
  \/ OutputMarkdown
  \/ ExitWithLevel
  \/ CatchAndExit

SpecScanCommand == InitScanCommand /\ [][NextScanCommand]_vars

TypeOK ==
  /\ pc \in {"summaries", "gateCurrent", "gatePrevious", "pillars", "overall",
             "actions", "progress", "done", "off"}
  /\ i \in 0..Len(LEVELS)
  /\ highestAchieved \in LevelOrNull
  /\ levelCurrent \in LevelOrNull
  /\ levelPrevious \in LevelOrNull
  /\ overallScore \in 0..100
  /\ actionLevel \in LevelOrNull

(***************************************************************************)
(* Vocabulary of the properties: counts taken directly on the input list   *)
(***************************************************************************)
\* position of a level in L1..L5, 0 for null
rank(level) ==
  IF level = null THEN 0 ELSE CHOOSE n \in 1..Len(LEVELS) : LEVELS[n] = level

atLevel(n) == {k \in 1..Len(results) : results[k].level = LEVELS[n]}
nTotal(n) == Cardinality(atLevel(n))
nPassed(n) == Cardinality({k \in atLevel(n) : results[k].passed})
nRequired(n) == Cardinality({k \in atLevel(n) : results[k].required})
nRequiredPassed(n) ==
  Cardinality({k \in atLevel(n) : results[k].required /\ results[k].passed})
requiredAllPass(n) == \A k \in atLevel(n) : results[k].required => results[k].passed
eightyPercent(n) == 5 * nPassed(n) >= 4 * nTotal(n)

summariesDone == pc \notin {"summaries"}
currentDone == pc \notin {"summaries", "gateCurrent"}
gatesDone == pc \notin {"summaries", "gateCurrent", "gatePrevious"}

(***************************************************************************)
(* C1                                                                      *)
(***************************************************************************)
\* a level meets the bar of the current-level gate
currentBar(n) == nTotal(n) = 0 \/ (requiredAllPass(n) /\ eightyPercent(n))

C3_RequiredVeto ==
  gatesDone =>
    /\ \A n \in 1..Len(LEVELS) :
         ~requiredAllPass(n) =>
           /\ rank(levelCurrent) < n
           /\ rank(levelPrevious) < n
           /\ ~levelSummaries[LEVELS[n]].achieved
    /\ \A k \in 1..Len(results) :
         (results[k].required /\ rank(results[k].level) <= rank(levelCurrent))
           => results[k].passed
    /\ \A k \in 1..Len(results) :
         (results[k].required /\ rank(results[k].level) <= rank(levelPrevious))
           => results[k].passed

\* L2 has 4 of 5 passing (80%) but its required check is the failing one, and
\* both gates stop at L1
C3_Witness ==
  /\ pc = "done"
  /\ nTotal(2) = 5 /\ nPassed(2) = 4 /\ ~requiredAllPass(2)
  /\ levelCurrent = "L1"
  /\ levelPrevious = "L1"

(***************************************************************************)
(* C4                                                                      *)
(***************************************************************************)
inWalk == pc \in {"gateCurrent", "gatePrevious"}

\* C4: in both gates the walk never achieves a level out of order:
\* highestAchieved only moves from null to L1 or from a level to the one
\* right above it, which is the level being examined; once a level has
\* failed the walk examines and achieves nothing more; what is returned is
\* highestAchieved, so the levels 1..N below a reported N were each achieved
\* in turn by the same rule.
C4_SequentialGate ==
  /\ [](inWalk => rank(highestAchieved) = i)
  /\ [][ /\ (inWalk /\ pc' = pc) =>
              /\ \/ highestAchieved' = highestAchieved
                 \/ /\ ~broke
                    /\ rank(highestAchieved') = rank(highestAchieved) + 1
                    /\ highestAchieved' = LEVELS[i + 1]
              /\ broke => (i' = i /\ highestAchieved' = highestAchieved /\ broke')
              /\ ~broke => (broke' <=> highestAchieved' = highestAchieved)
         /\ (pc = "gateCurrent" /\ pc' # pc) => levelCurrent' = highestAchieved
         /\ (pc = "gatePrevious" /\ pc' # pc) => levelPrevious' = highestAchieved
       ]_vars

\* the walk has stopped at L2 although every check of L3 passes
C4_Witness ==
  /\ inWalk
  /\ broke
  /\ i = 1
  /\ nTotal(3) > 0 /\ nPassed(3) = nTotal(3)

(***************************************************************************)
(* C5                                                                      *)
(***************************************************************************)
\* C5: in both gates a level with zero checks is achieved if and only if it is
\* L1 or the level right below it was achieved.
C5_EmptyLevelPassThrough ==
  gatesDone =>
    \A n \in 1..Len(LEVELS) :
      nTotal(n) = 0 =>
        /\ rank(levelCurrent) >= n <=> (n = 1 \/ rank(levelCurrent) >= n - 1)
        /\ rank(levelPrevious) >= n <=> (n = 1 \/ rank(levelPrevious) >= n - 1)

\* L2 is empty and achieved after L1; L4 is empty and not achieved because L3
\* was stopped
C5_Witness ==
  /\ pc = "done"
  /\ nTotal(1) > 0 /\ nTotal(2) = 0 /\ nTotal(3) > 0 /\ nTotal(4) = 0
  /\ levelCurrent = "L2"
  /\ levelPrevious = "L2"

(***************************************************************************)
(* C6                                                                      *)
(***************************************************************************)
\* C6: the achieved flag of a level summary is true iff all required checks
\* of the level pass and the level has no checks or at least 80% of them pass
\* (so 4 of 5 with the required ones passing is true, anything below 0.8 is
\* false, an empty level is true).
C6_LocalAchievedFlag ==
  summariesDone =>
    \A n \in 1..Len(LEVELS) :
      levelSummaries[LEVELS[n]].achieved <=>
        (requiredAllPass(n) /\ (nTotal(n) = 0 \/ eightyPercent(n)))

\* exactly 4 of 5 at L1 (true), 3 of 5 at L2 (false), L3 empty (true)
C6_Witness ==
  /\ summariesDone
  /\ nTotal(1) = 5 /\ nPassed(1) = 4 /\ levelSummaries["L1"].achieved
  /\ nTotal(2) = 5 /\ nPassed(2) = 3 /\ requiredAllPass(2)
  /\ ~levelSummaries["L2"].achieved
  /\ nTotal(3) = 0 /\ levelSummaries["L3"].achieved

(***************************************************************************)
(* C7                                                                      *)
(***************************************************************************)
\* C7: with the previous-level gate (part_006), whenever the overall level
\* is N every level strictly below N has its LevelSummary.achieved flag true
\* (if the level is L2 then levels.L1.achieved is true).
C7_LowerFlagsTrue ==
  gatesDone =>
    \A m \in 1..Len(LEVELS) :
      m < rank(levelPrevious) => levelSummaries[LEVELS[m]].achieved

(***************************************************************************)
(* C8                                                                      *)
(***************************************************************************)
\* C8: the level_achieved of a pillar is the previous-level gate of part_006
\* applied to the level summaries of that pillar's results alone, and
\* determinePillarLevel(r) = determineAchievedLevel(calculateLevelSummaries(r))
\* for the whole list as well.
C8_PillarLevelIsPreviousGate ==
  pc \in {"overall", "progress", "done"} =>
    /\ \A pillar \in PillarSet :
         pillarSummaries[pillar].level_achieved =
           determineAchievedLevelPrevious(
             calculateLevelSummaries(filterPillar(results, pillar)))
    /\ determinePillarLevel(results) = levelPrevious

\* docs stops at L1 because fewer than 80% of its own L1 checks pass, while
\* the list as a whole gets past L2
C8_Witness ==
  /\ pc = "done"
  /\ pillarSummaries["docs"].level_achieved = "L1"
  /\ pillarSummaries["docs"].checks_total > 0
  /\ rank(levelPrevious) >= 2
  /\ \E k \in atLevel(2) : results[k].pillar = "docs"

(***************************************************************************)
(* C9                                                                      *)
(***************************************************************************)
\* C9: calculateProgressToNext(current, summaries) is 1.0 when current is L5,
\* 1.0 when the level after current (L1 for null) has no checks, and
\* checks_passed/checks_total of that level otherwise; it lies in [0,1].
C9_ProgressToNext ==
  pc = "done" =>
    LET n == rank(progressFrom) + 1
    IN  /\ progress.den > 0
        /\ 0 <= progress.num /\ progress.num <= progress.den
        /\ IF n > Len(LEVELS) \/ nTotal(n) = 0
             THEN progress.num = progress.den
             ELSE progress.num * nTotal(n) = nPassed(n) * progress.den

\* from L1 with 3 of 5 passing at L2 the progress is 3/5
C9_Witness ==
  /\ pc = "done"
  /\ progressFrom = "L1"
  /\ nTotal(2) = 5 /\ nPassed(2) = 3
  /\ progress = [num |-> 3, den |-> 5]

(***************************************************************************)
(* C10                                                                     *)
(***************************************************************************)
\* C10: for every level the summary reports checks_total as the number of
\* results at the level, checks_passed as the number of those that passed,
\* required_total and required_passed as the same counts over required
\* checks, and score as checks_passed/checks_total*100 rounded to the nearest
\* integer, halves up, 0 for an empty level.
C10_CountsAndRoundedScore ==
  summariesDone =>
    \A n \in 1..Len(LEVELS) :
      LET summary == levelSummaries[LEVELS[n]]
      IN  /\ summary.checks_total = nTotal(n)
          /\ summary.checks_passed = nPassed(n)
          /\ summary.required_total = nRequired(n)
          /\ summary.required_passed = nRequiredPassed(n)
          /\ summary.score =
               IF nTotal(n) = 0 THEN 0
               ELSE (200 * nPassed(n) + nTotal(n)) \div (2 * nTotal(n))

(***************************************************************************)
(* C11                                                                     *)
(***************************************************************************)
\* C11: every LevelSummary has checks_passed <= checks_total,
\* required_passed <= required_total, required_total <= checks_total and
\* required_passed <= checks_passed.
C11_SummaryCountInvariants ==
  summariesDone =>
    \A level \in LevelSet :
      LET summary == levelSummaries[level]
      IN  /\ summary.checks_passed <= summary.checks_total
          /\ summary.required_passed <= summary.required_total
          /\ summary.required_total <= summary.checks_total
          /\ summary.required_passed <= summary.checks_passed

\* two levels hold required checks, and one of them has every inequality strict
C11_Witness ==
  /\ pc = "done"
  /\ nRequired(1) > 0
  /\ LET summary == levelSummaries["L2"]
     IN  /\ 0 < summary.required_passed
         /\ summary.required_passed < summary.required_total
         /\ summary.required_total < summary.checks_total
         /\ summary.required_passed < summary.checks_passed
         /\ summary.checks_passed < summary.checks_total

(***************************************************************************)
(* C12                                                                     *)
(***************************************************************************)
\* the results that passed, over the whole list
passedOverall == Cardinality({k \in 1..Len(results) : results[k].passed})
overallDone == pc \in {"actions", "progress", "done"}

\* C12: calculateOverallScore is 100 * passed / total rounded to the nearest
\* integer over the whole result list, and 0 for the empty list.
C12_OverallScoreRounded ==
  overallDone =>
    overallScore =
      IF Len(results) = 0 THEN 0
      ELSE (200 * passedOverall + Len(results)) \div (2 * Len(results))

(***************************************************************************)
(* C13                                                                     *)
(***************************************************************************)
inPillar(pillar) == {k \in 1..Len(results) : results[k].pillar = pillar}
failedInPillar(pillar) == {k \in inPillar(pillar) : ~results[k].passed}
passedInPillar(pillar) == inPillar(pillar) \ failedInPillar(pillar)
pillarsDone == pc \in {"overall", "actions", "progress", "done"}

\* C13: calculatePillarSummaries returns a summary for each of the nine
\* pillars, whose score is 100 * passed / total rounded to the nearest
\* integer over the pillar's checks, and 100 when the pillar has no checks.
C13_PillarScoreRounded ==
  pillarsDone =>
    /\ DOMAIN pillarSummaries = PillarSet
    /\ Cardinality(PillarSet) = 9
    /\ \A pillar \in PillarSet :
         LET total == Cardinality(inPillar(pillar))
             passed == Cardinality(passedInPillar(pillar))
         IN  pillarSummaries[pillar].score =
               IF total = 0 THEN 100
               ELSE (200 * passed + total) \div (2 * total)

(***************************************************************************)
(* C14                                                                     *)
(***************************************************************************)
\* the n-th smallest member of a set of positions
nth(positions, n) ==
  CHOOSE k \in positions : Cardinality({j \in positions : j <= k}) = n

\* C14: failed_checks of a pillar holds the check_id of each failing result
\* of that pillar, once each, in the order of the input; its length is
\* checks_total - checks_passed.
C14_FailedChecksInInputOrder ==
  pillarsDone =>
    \A pillar \in PillarSet :
      LET summary == pillarSummaries[pillar]
          failed == failedInPillar(pillar)
      IN  /\ Len(summary.failed_checks) = Cardinality(failed)
          /\ \A n \in 1..Cardinality(failed) :
               summary.failed_checks[n] = results[nth(failed, n)].check_id
          /\ Len(summary.failed_checks) =
               summary.checks_total - summary.checks_passed

\* a pillar with passing checks and with failing checks, optional ones and
\* required ones, that are not next to each other in the input
C14_Witness ==
  /\ pc = "done"
  /\ \E pillar \in PillarSet :
       /\ passedInPillar(pillar) # {}
       /\ \E j, k \in failedInPillar(pillar) :
            /\ j + 1 < k
            /\ results[j].required
            /\ ~results[k].required
       /\ Len(pillarSummaries[pillar].failed_checks) >= 3

(***************************************************************************)
(* C15                                                                     *)
(***************************************************************************)
\* C15: a pillar with no checks has score 100 and level_achieved L5, and
\* both copies of determineAchievedLevel return L5 when every level is empty.
C15_EmptyIsTopLevel ==
  /\ pillarsDone =>
       \A pillar \in PillarSet :
         inPillar(pillar) = {} =>
           /\ pillarSummaries[pillar].score = 100
           /\ pillarSummaries[pillar].level_achieved = "L5"
  /\ (gatesDone /\ Len(results) = 0) =>
       levelCurrent = "L5" /\ levelPrevious = "L5"

\* the empty result list has gone through the whole pipeline
C15_Witness ==
  /\ pc = "done"
  /\ Len(results) = 0
  /\ pillarSummaries["docs"].checks_total = 0
  /\ levelCurrent = "L5"

(***************************************************************************)
(* C16                                                                     *)
(***************************************************************************)
\* the records whose pillar and level both lie in the enumerations
inEnum == {k \in 1..Len(results) :
             results[k].level \in LevelSet /\ results[k].pillar \in PillarSet}

RECURSIVE sumChecksTotal(_, _, _)
sumChecksTotal(summaries, names, k) ==
  IF k > Len(names) THEN 0
  ELSE summaries[names[k]].checks_total + sumChecksTotal(summaries, names, k + 1)

\* C16: a result whose pillar or level lies outside the enumerations is left
\* out of every aggregate alike: the level summaries, the pillar summaries
\* and the overall score all count the same records of the input list (the
\* overall score is the one Math.round gives for the counted records).
C16_AggregatesCountSameRecords ==
  overallDone =>
    LET total == Cardinality(inEnum)
        passed == Cardinality({k \in inEnum : results[k].passed})
    IN  /\ sumChecksTotal(levelSummaries, LEVELS, 1) = total
        /\ sumChecksTotal(pillarSummaries, PILLARS, 1) = total
        /\ overallScore = IF total = 0 THEN 0 ELSE roundPercent(passed, total)

(***************************************************************************)
(* C18                                                                     *)
(***************************************************************************)
actionsDone == pc \in {"progress", "done"}

priorityRank(priority) ==
  CASE priority = "critical" -> 1
    [] priority = "high" -> 2
    [] priority = "medium" -> 3
    [] priority = "low" -> 4

\* C18: the action items are sorted by priority in the order critical, high,
\* medium, low; items of equal priority are ordered by level ascending and
\* then by check_id.
C18_ActionItemsSorted ==
  actionsDone =>
    \A j \in 1..(Len(actionItems) - 1) :
      LET a == actionItems[j]
          b == actionItems[j + 1]
      IN  /\ priorityRank(a.priority) <= priorityRank(b.priority)
          /\ a.priority = b.priority =>
               /\ rank(a.level) <= rank(b.level)
               /\ a.level = b.level => a.check_id < b.check_id

\* a list with several priorities, with neighbours that differ in level
\* alone and neighbours that differ in check_id alone, and that is not in
\* the order of the input
C18_Witness ==
  /\ pc = "done"
  /\ Len(actionItems) >= 4
  /\ actionItems[1].priority # actionItems[Len(actionItems)].priority
  /\ \E j \in 1..(Len(actionItems) - 1) :
       /\ actionItems[j].priority = actionItems[j + 1].priority
       /\ actionItems[j].level # actionItems[j + 1].level
       /\ actionItems[j].check_id > actionItems[j + 1].check_id
  /\ \E j \in 1..(Len(actionItems) - 1) :
       /\ actionItems[j].priority = actionItems[j + 1].priority
       /\ actionItems[j].level = actionItems[j + 1].level

(***************************************************************************)
(* C19                                                                     *)
(***************************************************************************)
failedPositions == {k \in 1..Len(results) : ~results[k].passed}
itemsOf(k) ==
  {j \in 1..Len(actionItems) : actionItems[j].check_id = results[k].check_id}
firstUnachieved == rank(actionLevel) + 1

C20_ScoresInRange ==
  /\ summariesDone =>
       \A level \in LevelSet : levelSummaries[level].score \in 0..100
  /\ pillarsDone =>
       \A pillar \in PillarSet :
         /\ pillarSummaries[pillar].score \in 0..100
         /\ pillarSummaries[pillar].checks_passed <=
              pillarSummaries[pillar].checks_total
  /\ overallDone => overallScore \in 0..100

\* scores at both ends of the range and inside it
C20_Witness ==
  /\ pc = "done"
  /\ \E level \in LevelSet : levelSummaries[level].score = 100
  /\ \E level \in LevelSet :
       levelSummaries[level].checks_total > 0 /\ levelSummaries[level].score = 0
  /\ \E level \in LevelSet : levelSummaries[level].score \in 1..99
  /\ \E pillar \in PillarSet : pillarSummaries[pillar].score \in 1..99
  /\ overallScore \in 1..99

(***************************************************************************)
(* C22                                                                     *)
(***************************************************************************)
\* C22: on the same level summaries the current-level gate never returns a
\* higher level than the previous-level gate, null counting as below L1.
C22_CurrentGateNotAbovePrevious ==
  gatesDone => rank(levelCurrent) <= rank(levelPrevious)

\* the two gates differ: the previous-level gate passes L2 on its required
\* checks while the current-level gate stops at L2's own pass rate
C22_Witness ==
  /\ pc = "done"
  /\ levelCurrent = "L1"
  /\ rank(levelPrevious) >= 2
  /\ nTotal(2) > 0 /\ ~eightyPercent(2)

(***************************************************************************)
(* C24                                                                     *)
(***************************************************************************)
\* progress was computed for the level of the current-level gate
progressOfCurrentGate == pc = "done" /\ progressFrom = levelCurrent

\* C24: for the level returned by the current-level gate, progress to next is
\* 1.0 if and only if that level is L5; below L5 (or at null) the next level
\* has at least one check and progress is strictly below 1.
C24_ProgressOneOnlyAtL5 ==
  progressOfCurrentGate =>
    /\ progress.num = progress.den <=> levelCurrent = "L5"
    /\ levelCurrent # "L5" =>
         /\ nTotal(rank(levelCurrent) + 1) > 0
         /\ progress.num < progress.den

\* both sides: a scan that reached L5, and one stopped below with some of the
\* next level's checks passing
C24_Witness ==
  /\ progressOfCurrentGate
  /\ levelCurrent = "L2"
  /\ nTotal(1) > 0
  /\ progress.num > 0
  /\ progress.num < progress.den

(***************************************************************************)
(* C25                                                                     *)
(***************************************************************************)
inPillarAt(pillar, n) == {k \in inPillar(pillar) : results[k].level = LEVELS[n]}

\* C25: whenever the walk of either determineAchievedLevel reaches a level
\* with zero checks, something was achieved before or the level is L1, and
\* the step achieves the level instead of breaking; in determinePillarLevel
\* likewise the level returned is never the one right below a level that is
\* empty for the pillar.
C25_EmptyLevelNeverBreaks ==
  /\ []((inWalk /\ ~broke /\ i < Len(LEVELS) /\ nTotal(i + 1) = 0) =>
          (highestAchieved # null \/ LEVELS[i + 1] = "L1"))
  /\ [][(inWalk /\ ~broke /\ i < Len(LEVELS) /\ nTotal(i + 1) = 0 /\ pc' = pc) =>
          (highestAchieved' = LEVELS[i + 1] /\ ~broke')]_vars
  /\ [](pillarsDone =>
          \A pillar \in PillarSet :
            \A n \in 1..Len(LEVELS) :
              inPillarAt(pillar, n) = {} =>
                rank(pillarSummaries[pillar].level_achieved) # n - 1)

\* the walk stands before an empty L3 with L1 and L2 achieved on their checks
C25_Witness ==
  /\ inWalk
  /\ ~broke
  /\ i = 2
  /\ highestAchieved = "L2"
  /\ nTotal(1) > 0 /\ nTotal(2) > 0 /\ nTotal(3) = 0
  /\ nTotal(4) > 0

(***************************************************************************)
(* C26                                                                     *)
(***************************************************************************)
RECURSIVE sumChecksPassed(_, _, _)
sumChecksPassed(summaries, names, k) ==
  IF k > Len(names) THEN 0
  ELSE summaries[names[k]].checks_passed + sumChecksPassed(summaries, names, k + 1)

\* C26: on a list whose pillars and levels lie in the enumerations every
\* result is counted in exactly one level summary and one pillar summary:
\* the checks_total of the five levels and of the nine pillars both sum to
\* the number of results, and the checks_passed both sum to the number of
\* passed results.
C26_EveryResultCountedOnce ==
  overallDone =>
    /\ sumChecksTotal(levelSummaries, LEVELS, 1) = Len(results)
    /\ sumChecksTotal(pillarSummaries, PILLARS, 1) = Len(results)
    /\ sumChecksPassed(levelSummaries, LEVELS, 1) = passedOverall
    /\ sumChecksPassed(pillarSummaries, PILLARS, 1) = passedOverall
    /\ \A k \in 1..Len(results) :
         /\ Cardinality({n \in 1..Len(LEVELS) : k \in atLevel(n)}) = 1
         /\ Cardinality({pillar \in PillarSet : k \in inPillar(pillar)}) = 1

\* results spread over several levels and pillars, passing and failing
C26_Witness ==
  /\ pc = "done"
  /\ Cardinality({n \in 1..Len(LEVELS) : nTotal(n) > 0}) >= 3
  /\ Cardinality({pillar \in PillarSet : inPillar(pillar) # {}}) >= 2
  /\ 0 < passedOverall
  /\ passedOverall < Len(results)

(***************************************************************************)
(* C23                                                                     *)
(***************************************************************************)
secondScanDone(what) == pc = "done" /\ change = what

\* C23: changing one failed check to passed, everything else unchanged, never
\* lowers the level of either gate, nor any pillar's level_achieved, nor any
\* level score, pillar score or the overall score.
C23_PassingNeverLowers ==
  secondScanDone("pass") =>
    /\ rank(levelCurrent) >= rank(before.levelCurrent)
    /\ rank(levelPrevious) >= rank(before.levelPrevious)
    /\ \A pillar \in PillarSet :
         /\ rank(pillarSummaries[pillar].level_achieved) >=
              rank(before.pillarSummaries[pillar].level_achieved)
         /\ pillarSummaries[pillar].score >= before.pillarSummaries[pillar].score
    /\ \A level \in LevelSet :
         levelSummaries[level].score >= before.levelSummaries[level].score
    /\ overallScore >= before.overallScore

\* the check that was fixed raised the level of both gates, a pillar's level
\* and the overall score
C23_Witness ==
  /\ secondScanDone("pass")
  /\ rank(levelCurrent) > rank(before.levelCurrent)
  /\ rank(levelPrevious) > rank(before.levelPrevious)
  /\ \E pillar \in PillarSet :
       rank(pillarSummaries[pillar].level_achieved) >
         rank(before.pillarSummaries[pillar].level_achieved)
  /\ overallScore > before.overallScore

(***************************************************************************)
(* C27                                                                     *)
(***************************************************************************)
withoutFailedChecks(summary) ==
  [pillar |-> summary.pillar, name |-> summary.name,
   level_achieved |-> summary.level_achieved, score |-> summary.score,
   checks_passed |-> summary.checks_passed,
   checks_total |-> summary.checks_total]
members(seq) == {seq[k] : k \in 1..Len(seq)}

\* C27: putting the input list in another order changes neither the level
\* summaries, nor the achieved level, nor progress_to_next, nor the overall
\* score, nor any pillar's score, counts and level_achieved; a pillar's
\* failed_checks keeps its entries and lists them in the new input order.
C27_OrderIndependent ==
  (secondScanDone("reorder") /\ progressFrom = before.progressFrom) =>
    /\ levelSummaries = before.levelSummaries
    /\ levelCurrent = before.levelCurrent
    /\ levelPrevious = before.levelPrevious
    /\ progress = before.progress
    /\ overallScore = before.overallScore
    /\ \A pillar \in PillarSet :
         LET summary == pillarSummaries[pillar]
             old == before.pillarSummaries[pillar]
             failed == failedInPillar(pillar)
         IN  /\ withoutFailedChecks(summary) = withoutFailedChecks(old)
             /\ members(summary.failed_checks) = members(old.failed_checks)
             /\ Len(summary.failed_checks) = Len(old.failed_checks)
             /\ \A n \in 1..Cardinality(failed) :
                  summary.failed_checks[n] = results[nth(failed, n)].check_id

\* a reordered list with passing and failing checks at a level that was
\* achieved, where a pillar's failed_checks came out in another order
C27_Witness ==
  /\ secondScanDone("reorder")
  /\ progressFrom = before.progressFrom
  /\ levelCurrent # null
  /\ \E pillar \in PillarSet :
       /\ Len(pillarSummaries[pillar].failed_checks) >= 2
       /\ pillarSummaries[pillar].failed_checks #
            before.pillarSummaries[pillar].failed_checks

(***************************************************************************)
(* C21                                                                     *)
(***************************************************************************)
\* C21: the current locale is always a supported locale: 'en' at first, x
\* after setLocale(x) for a supported x and 'en' after any other setLocale,
\* and getLocale returns the value the most recent setLocale established.
C21_LocaleAlwaysSupported ==
  /\ currentLocale \in SupportedLocales
  /\ lastLocaleSet = null => currentLocale = "en"
  /\ lastLocaleSet # null =>
       currentLocale = IF lastLocaleSet \in SupportedLocales
                         THEN lastLocaleSet ELSE "en"
  /\ localeReturned # null => localeReturned = currentLocale

(***************************************************************************)
(* C28                                                                     *)
(***************************************************************************)
\* C28: when two tool calls with different lang values are in flight, the
\* scan of each runs and completes under the locale the call asked for.
C28_ScanUnderRequestedLocale ==
  \A c \in ToolCallIds :
    /\ toolCalls[c].pc = "scanning" => currentLocale = toolCalls[c].lang
    /\ toolCalls[c].pc = "done" => toolCalls[c].observed = toolCalls[c].lang

(***************************************************************************)
(* C29                                                                     *)
(***************************************************************************)
\* C29: initFiles with dry_run true creates and modifies no file; with
\* dry_run false it writes only to target paths that do not exist and never
\* overwrites an existing file; it only lists failed checks at or below the
\* requested level; files_created + files_skipped is the number of templates
\* listed.
C29_InitFilesWritesOnlyMissing ==
  /\ overwritten = {}
  /\ \A c \in InitCallIds :
       LET call == initCalls[c]
       IN  /\ call.dry_run => (call.created = <<>> /\ call.pc # "write")
           /\ \A k \in 1..Len(call.templates) :
                /\ \E j \in 1..Len(failedChecks) :
                     failedChecks[j].check_id = call.templates[k].check_id
                /\ call.level # null =>
                     rank(call.templates[k].level) <= rank(call.level)
           /\ (call.pc = "done" /\ ~call.dry_run) =>
                Len(call.created) + Len(call.skipped) = Len(call.templates)

(***************************************************************************)
(* C30                                                                     *)
(***************************************************************************)
exited == cli.pc = "exited"
validationFails ==
  \/ ~cli.pathExists
  \/ cli.level # null /\ cli.level \notin LevelSet
  \/ cli.output \notin {"json", "markdown", "both"}
validationFailsNonEmpty ==
  \/ ~cli.pathExists
  \/ cli.level \notin {null, ""} /\ cli.level \notin LevelSet
  \/ cli.output \notin {"json", "markdown", "both"}

\* C30 as stated: scanCommand exits with code 0 if and only if the scan
\* completed and achieved some level; every other end is exit code 1, and a
\* missing path, an invalid level or an invalid output format exit before
\* any scan or output.
C30_ExitZeroIffLevelAchieved ==
  exited =>
    /\ cli.exitCode \in {0, 1}
    /\ cli.exitCode = 0 <=> (cli.scanCompleted /\ cli.resultLevel # null)
    /\ validationFails =>
         (cli.exitCode = 1 /\ ~cli.scanStarted /\ cli.outputs = {})

\* C30 amended: scanCommand exits with code 0 if and only if the scan
\* completed, writing the JSON output did not throw, and some level was
\* achieved; every other end is exit code 1, and a missing path, a
\* non-empty level that is not one of L1..L5 or an invalid output format exit
\* before any scan or output.
C30_ExitZeroIffLevelAndOutput ==
  exited =>
    /\ cli.exitCode \in {0, 1}
    /\ cli.exitCode = 0 <=>
         (cli.scanCompleted /\ ~cli.outputFailed /\ cli.resultLevel # null)
    /\ validationFailsNonEmpty =>
         (cli.exitCode = 1 /\ ~cli.scanStarted /\ cli.outputs = {})

\* a run whose scan achieved a level and whose JSON output could not be
\* written: it ends with exit code 1
C30_Witness ==
  /\ exited
  /\ cli.scanCompleted
  /\ cli.resultLevel = "L2"
  /\ cli.outputFailed
  /\ cli.exitCode = 1

====
